---- MODULE Spec2Model ----
(***************************************************************************)
(* A model of the path tracer: the value types of common.rs, the shapes of *)
(* shape.rs, the Simple material of material.rs, the lights of light.rs    *)
(* and Renderer::render / Renderer::trace_ray of render.rs.                *)
(*                                                                         *)
(* Numbers.  An f32 of the geometry (a coordinate, a ray parameter t, a    *)
(* dot product) is a fixed-point integer counting units of 1/Scale; the    *)
(* grid is twice as fine as EPSILON, so that values strictly between 0 and *)
(* EPSILON exist.  Products and quotients are rounded to the nearest unit. *)
(* A vector carries a flag nan: glam's normalize() of the zero vector is   *)
(* NaN in every lane.  An f32 of the radiometry (a colour channel, an      *)
(* intensity, max_value, a pixel channel) is a record that is finite, NaN  *)
(* or an infinity, because render divides by sample_count and max_value.   *)
(***************************************************************************)
EXTENDS Integers, Sequences, FiniteSets, TLC

VARIABLES
    scene,            \* the Scene handed to render: camera, objects, lights
    materials,        \* the Arc<dyn Material> heap: handle -> Simple
    renderer,         \* the Renderer: sample_count, indirect_count, max_value, ambient_light
    overflow_checks,  \* the build profile: TRUE when u32 overflow panics (debug)
    worker,           \* per render call: its locals (pc, x, y, ray, channels, stack, ret, ...)
    buffer,           \* per render call: its output buffer, pixel -> 3 channels
    draws,            \* per render call: the random draws scatter has made (kept when recording)
    call              \* a single call of a constructor or of intersection(), for the value types

vars == <<scene, materials, renderer, overflow_checks, worker, buffer, draws, call>>

\* Rust's `let`: the value is computed once and then named (an operator
\* argument or a LET definition is an expression, computed at each use).
Let(v, F(_)) == CHOOSE r \in {F(a) : a \in {v}} : TRUE

Let2(v, w, F(_, _)) == CHOOSE r \in {F(p[1], p[2]) : p \in {<<v, w>>}} : TRUE

(***************************************************************************)
(* Fixed-point arithmetic of the geometry.                                 *)
(***************************************************************************)

\* pub const EPSILON: f32 = 0.0001, in grid units.
EPSILON == 2

\* Grid units in 1.0: EPSILON is 1/10000.
Scale == EPSILON * 10000

Abs(a) == IF a < 0 THEN -a ELSE a

Sign(a) == IF a < 0 THEN -1 ELSE IF a > 0 THEN 1 ELSE 0

\* n / d rounded to the nearest integer (ties away from zero), d > 0.
RoundDiv(n, d) == Let(n, LAMBDA m : Sign(m) * ((Abs(m) + d \div 2) \div d))

\* a * b of two fixed-point numbers.
MulFx(a, b) == RoundDiv(a * b, Scale)

\* a / b of two fixed-point numbers, b # 0 (the quotient is split so that
\* no intermediate product grows beyond 32-bit integers).
DivFx(a, b) ==
    Let2(a, b, LAMBDA n, d :
        Sign(n) * Sign(d)
            * ((Abs(n) \div Abs(d)) * Scale + RoundDiv((Abs(n) % Abs(d)) * Scale, Abs(d))))

\* Binary search for the largest r in lo..hi with r * r <= n.
ISqrtIter[n \in Nat, lo \in Nat, hi \in Nat] ==
    IF lo >= hi THEN lo
    ELSE IF ((lo + hi + 1) \div 2) * ((lo + hi + 1) \div 2) <= n
         THEN ISqrtIter[n, (lo + hi + 1) \div 2, hi]
         ELSE ISqrtIter[n, lo, (lo + hi + 1) \div 2 - 1]

\* The integer nearest to the square root of n >= 0.
ISqrt(n) ==
    Let2(n, ISqrtIter[n, 0, 46340], LAMBDA m, r : IF m - r * r > r THEN r + 1 ELSE r)

\* f32::sqrt of a fixed-point number x >= 0.
SqrtFx(x) == ISqrt(x * Scale)

(***************************************************************************)
(* Vec3 (glam::Vec3A).                                                     *)
(***************************************************************************)

Vec(x, y, z) == [x |-> x, y |-> y, z |-> z, nan |-> FALSE]

NaNVec == [x |-> 0, y |-> 0, z |-> 0, nan |-> TRUE]

VecX == Vec(Scale, 0, 0)
VecY == Vec(0, Scale, 0)
VecZ == Vec(0, 0, Scale)
VecZero == Vec(0, 0, 0)

VAdd(a, b) ==
    Let2(a, b, LAMBDA u, v :
        IF u.nan \/ v.nan THEN NaNVec ELSE Vec(u.x + v.x, u.y + v.y, u.z + v.z))

VSub(a, b) ==
    Let2(a, b, LAMBDA u, v :
        IF u.nan \/ v.nan THEN NaNVec ELSE Vec(u.x - v.x, u.y - v.y, u.z - v.z))

VNeg(a) == Let(a, LAMBDA u : IF u.nan THEN NaNVec ELSE Vec(-u.x, -u.y, -u.z))

\* Vec3 * f32
VScale(a, k) ==
    Let2(a, k, LAMBDA u, s :
        IF u.nan THEN NaNVec ELSE Vec(MulFx(u.x, s), MulFx(u.y, s), MulFx(u.z, s)))

\* The squared length in squared grid units (Scale * Scale is 1.0).
LenSqRaw(a) == Let(a, LAMBDA u : u.x * u.x + u.y * u.y + u.z * u.z)

length_squared(a) == RoundDiv(LenSqRaw(a), Scale)

dot(a, b) == Let2(a, b, LAMBDA u, v : RoundDiv(u.x * v.x + u.y * v.y + u.z * v.z, Scale))

cross(a, b) ==
    Let2(a, b, LAMBDA u, v :
        Vec(RoundDiv(u.y * v.z - u.z * v.y, Scale),
            RoundDiv(u.z * v.x - u.x * v.z, Scale),
            RoundDiv(u.x * v.y - u.y * v.x, Scale)))

\* a + (b - a) * s
lerp(a, b, s) == Let(a, LAMBDA u : VAdd(u, VScale(VSub(b, u), s)))

\* Vec3::normalize: self * (1 / length).  The zero vector gives 0 * inf = NaN
\* in every lane; a NaN vector stays NaN.
normalize(a) ==
    Let(a, LAMBDA u :
        IF u.nan \/ LenSqRaw(u) = 0 THEN NaNVec
        ELSE Let(ISqrt(LenSqRaw(u)), LAMBDA len :
                Vec(Sign(u.x) * RoundDiv(Abs(u.x) * Scale, len),
                    Sign(u.y) * RoundDiv(Abs(u.y) * Scale, len),
                    Sign(u.z) * RoundDiv(Abs(u.z) * Scale, len))))

\* Vec3::try_normalize(a).unwrap_or(d): d when the length is 0 or not finite.
try_normalize_or(a, d) ==
    Let(a, LAMBDA u : IF u.nan \/ LenSqRaw(u) = 0 THEN d ELSE normalize(u))

\* Vec3::is_normalized: |length_squared - 1| <= 1e-4; false for NaN.
is_normalized(a) ==
    Let(a, LAMBDA u :
        ~u.nan /\ Abs(LenSqRaw(u) - Scale * Scale) <= (Scale * Scale) \div 10000)
(***************************************************************************)
(* f32 values of the radiometry: finite (fixed-point), NaN, or +-infinity. *)
(***************************************************************************)

Fin(v) == [k |-> "fin", v |-> v]

NaN == [k |-> "nan", v |-> 0]

Inf(sign) == [k |-> "inf", v |-> sign]

FZero == Fin(0)

FOne == Fin(Scale)

FSign(a) == Sign(a.v)

FAdd(a, b) ==
    Let2(a, b, LAMBDA p, q :
        CASE p.k = "nan" \/ q.k = "nan" -> NaN
          [] p.k = "inf" /\ q.k = "inf" -> IF p.v = q.v THEN p ELSE NaN
          [] p.k = "inf" -> p
          [] q.k = "inf" -> q
          [] OTHER -> Fin(p.v + q.v))

FMul(a, b) ==
    Let2(a, b, LAMBDA p, q :
        CASE p.k = "nan" \/ q.k = "nan" -> NaN
          [] p.k = "inf" \/ q.k = "inf" ->
                IF FSign(p) * FSign(q) = 0 THEN NaN ELSE Inf(FSign(p) * FSign(q))
          [] OTHER -> Fin(MulFx(p.v, q.v)))

\* IEEE division; the sign of a zero divisor is taken as positive.
FDiv(a, b) ==
    Let2(a, b, LAMBDA p, q :
        CASE p.k = "nan" \/ q.k = "nan" -> NaN
          [] p.k = "inf" /\ q.k = "inf" -> NaN
          [] p.k = "inf" -> Inf(IF FSign(q) < 0 THEN -p.v ELSE p.v)
          [] q.k = "inf" -> FZero
          [] q.v = 0 -> IF p.v = 0 THEN NaN ELSE Inf(Sign(p.v))
          [] OTHER -> Fin(DivFx(p.v, q.v)))

\* a < b; false when either is NaN.
FLt(a, b) ==
    Let2(a, b, LAMBDA p, q :
        /\ p.k # "nan"
        /\ q.k # "nan"
        /\ CASE p.k = "inf" /\ q.k = "inf" -> p.v < q.v
             [] p.k = "inf" -> p.v < 0
             [] q.k = "inf" -> q.v > 0
             [] OTHER -> p.v < q.v)

\* a <= b; false when either is NaN.
FLe(a, b) == Let2(a, b, LAMBDA p, q : p.k # "nan" /\ q.k # "nan" /\ (p = q \/ FLt(p, q)))

\* f32::clamp(self, lo, hi): NaN stays NaN.
FClamp(a, lo, hi) ==
    Let(a, LAMBDA p :
        IF p.k = "nan" THEN NaN
        ELSE IF FLt(p, lo) THEN lo
        ELSE IF FLt(hi, p) THEN hi
        ELSE p)

\* `n as f32` of a small unsigned integer.
FFromNat(n) == Fin(n * Scale)

\* A channel that lies in [0, 1].
InUnit(a) == a.k = "fin" /\ 0 <= a.v /\ a.v <= Scale

(***************************************************************************)
(* common.rs: Ray and Color.  A call that can panic returns a record with  *)
(* ok = FALSE when the assertion fails.                                    *)
(***************************************************************************)

Panicked == [ok |-> FALSE]

Ok(v) == [ok |-> TRUE, val |-> v]

\* A constructor of Ray without the assertion.
RayNewUnchecked(point, direction) == Ok([point |-> point, direction |-> direction])

\* Ray::new: assert!(direction.is_normalized()).
RayNew(point, direction) ==
    Let(direction, LAMBDA d :
        IF is_normalized(d) THEN Ok([point |-> point, direction |-> d]) ELSE Panicked)

\* Ray::point_at_t
point_at_t(ray, t) == VAdd(ray.point, VScale(ray.direction, t))

\* Color::new: assert!(r <= 1.0); assert!(g <= 1.0); assert!(b <= 1.0).
ColorNew(r, g, b) ==
    IF FLe(r, FOne) /\ FLe(g, FOne) /\ FLe(b, FOne)
    THEN Ok(<<r, g, b>>)
    ELSE Panicked

\* impl Mul<Self> for Color: channel-wise product.
ColorMul(a, b) ==
    Let2(a, b, LAMBDA p, q : <<FMul(p[1], q[1]), FMul(p[2], q[2]), FMul(p[3], q[3])>>)

(***************************************************************************)
(* light.rs: Light and LightRay.                                           *)
(***************************************************************************)

LightRay(color, intensity) == [color |-> color, intensity |-> intensity]

\* Light::light_ray
light_ray(light) == LightRay(light.color, light.intensity)

\* LightRay::to_sample: color.to_vec3() * intensity
to_sample(lr) ==
    <<FMul(lr.color[1], lr.intensity),
      FMul(lr.color[2], lr.intensity),
      FMul(lr.color[3], lr.intensity)>>

(***************************************************************************)
(* shape.rs: Sphere, Plane and their intersection with a ray.              *)
(***************************************************************************)

Sphere(center, radius) == [kind |-> "Sphere", center |-> center, radius |-> radius]

\* Plane::new asserts that the normal is normalized; the scenes below only
\* hold planes it accepts.
Plane(point, normal) == [kind |-> "Plane", point |-> point, normal |-> normal]

None == [some |-> FALSE]

Some(point, normal, t) == [some |-> TRUE, point |-> point, normal |-> normal, t |-> t]

\* Sphere::normal
SphereNormal(s, point) == try_normalize_or(VSub(point, s.center), VecZ)

\* b_halved, c and delta_reduced of Sphere::intersection.
SphereBHalved(s, ray) == dot(VSub(ray.point, s.center), ray.direction)

SphereC(s, ray) ==
    RoundDiv(LenSqRaw(VSub(ray.point, s.center)) - s.radius * s.radius, Scale)

SphereDelta(s, ray) ==
    Let(SphereBHalved(s, ray), LAMBDA h : RoundDiv(h * h, Scale) - SphereC(s, ray))

\* (min, max): t1 and t2 in sorted order, from b_halved and delta_reduced >= 0.
SphereRoots(b_halved, delta_reduced) ==
    Let2(b_halved, SqrtFx(delta_reduced), LAMBDA h, sq :
        IF -h + sq < -h - sq
        THEN [min |-> -h + sq, max |-> -h - sq]
        ELSE [min |-> -h - sq, max |-> -h + sq])

\* A choice of root that rejects a root equal to EPSILON.
SphereValidTStrict(roots) ==
    IF roots.min > EPSILON THEN [some |-> TRUE, t |-> roots.min]
    ELSE IF roots.max > EPSILON THEN [some |-> TRUE, t |-> roots.max]
    ELSE [some |-> FALSE]

\* valid_t: the root Sphere::intersection accepts.
SphereValidT(roots) ==
    IF roots.min >= EPSILON THEN [some |-> TRUE, t |-> roots.min]
    ELSE IF roots.max >= EPSILON THEN [some |-> TRUE, t |-> roots.max]
    ELSE [some |-> FALSE]

\* valid_t.map(|t| Intersection { point, normal: self.normal(point), t })
SphereHitAt(s, ray, valid_t) ==
    IF valid_t.some
    THEN Let(point_at_t(ray, valid_t.t), LAMBDA p : Some(p, SphereNormal(s, p), valid_t.t))
    ELSE None

\* impl Intersect for Sphere
SphereIntersection(s, ray) ==
    Let2(SphereBHalved(s, ray), SphereDelta(s, ray), LAMBDA b_halved, delta_reduced :
        IF delta_reduced < 0 THEN None
        ELSE Let(SphereValidT(SphereRoots(b_halved, delta_reduced)),
                 LAMBDA valid_t : SphereHitAt(s, ray, valid_t)))

\* `if t > EPSILON`: the t Plane::intersection accepts.
PlaneValidT(t) == t > EPSILON

\* impl Intersect for Plane
PlaneIntersection(p, ray) ==
    Let(dot(ray.direction, p.normal), LAMBDA dir_dot_normal :
        IF Abs(dir_dot_normal) > 0
        THEN Let(DivFx(dot(VSub(p.point, ray.point), p.normal), dir_dot_normal), LAMBDA t :
                IF PlaneValidT(t) THEN Some(point_at_t(ray, t), p.normal, t) ELSE None)
        ELSE None)

\* enum Shape, dispatched on the variant.
Intersection(shape, ray) ==
    IF shape.kind = "Sphere" THEN SphereIntersection(shape, ray)
    ELSE PlaneIntersection(shape, ray)
NoCall == [fn |-> "none"]

(***************************************************************************)
(* u32 values (sample_count, indirect_count, depth) as two 16-bit halves,  *)
(* so that u32::MAX and the overflow of `indirect_count + 1` exist.        *)
(***************************************************************************)

\* 2^16: a u32 is hi * U16 + lo.
U16 == 65536

U32(n) == [hi |-> n \div U16, lo |-> n % U16]

U32_MAX == [hi |-> U16 - 1, lo |-> U16 - 1]

U32IsZero(u) == u.hi = 0 /\ u.lo = 0

\* u + 1 modulo 2^32
U32WrappingInc(u) ==
    IF u.lo = U16 - 1 THEN [hi |-> (u.hi + 1) % U16, lo |-> 0]
    ELSE [hi |-> u.hi, lo |-> u.lo + 1]

\* u - 1, for u # 0
U32Dec(u) ==
    IF u.lo = 0 THEN [hi |-> u.hi - 1, lo |-> U16 - 1]
    ELSE [hi |-> u.hi, lo |-> u.lo - 1]

\* The value of a u32 below 2^16.
U32ToNat(u) == u.lo

U32IsSmall(u) == u.hi = 0


(***************************************************************************)
(* material.rs: the Simple material.                                       *)
(***************************************************************************)

Simple(color, diffuse, fuzzyness) ==
    [color |-> color, diffuse |-> diffuse, fuzzyness |-> fuzzyness]

\* random_vec_unit_sphere: the loop redraws until length_squared < 1 and
\* returns the accepted draw normalized; `v` is one candidate draw.
Accepted(v) == length_squared(v) < Scale

\* The diffuse branch of Simple::scatter.
ScatterDiffuse(point, normal, random) ==
    Let(VAdd(point, normal), LAMBDA center :
        RayNew(point, normalize(VSub(VAdd(center, random), point))))

\* The reflection branch of Simple::scatter.
ScatterReflect(m, ray, point, normal, random) ==
    Let2(2 * dot(ray.direction, normal), VScale(random, m.fuzzyness), LAMBDA factor, fuzz :
        Let(VSub(ray.direction, VScale(normal, factor)), LAMBDA dir :
            RayNew(point, normalize(VAdd(dir, fuzz)))))

\* Simple::scatter, on the draws u (of gen_range(0.0..1.0)) and v (the
\* accepted candidate of random_vec_unit_sphere).
SimpleScatter(m, ray, point, normal, u, v) ==
    IF m.diffuse > u
    THEN ScatterDiffuse(point, normal, normalize(v))
    ELSE ScatterReflect(m, ray, point, normal, normalize(v))

\* Simple::color
SimpleColor(m, point, normal) == m.color

(***************************************************************************)
(* render.rs: Camera and ViewPlane.                                        *)
(***************************************************************************)

\* A quarter turn, pi / 2 radians.
FovQuarterTurn == (Scale * 15708) \div 10000

\* (fov / 2.0).tan() for the fields of view the scenes use.
TanHalfFov(fov) == IF fov = FovQuarterTurn THEN Scale ELSE 0

Camera(position, direction, fov, aspect_ratio) ==
    [position |-> position, direction |-> direction, fov |-> fov,
     aspect_ratio |-> aspect_ratio]

\* Camera::x_axis
x_axis(c) == try_normalize_or(cross(VecY, c.direction), VecX)

\* Camera::y_axis
y_axis(c) == try_normalize_or(cross(c.direction, x_axis(c)), VecY)

\* Camera::z_axis
z_axis(c) == c.direction

\* ViewPlane { top_left, top_right, bottom_left, bottom_right }
ViewPlane(top_center, bottom_center, across) ==
    [top_left     |-> VSub(top_center, across),
     top_right    |-> VAdd(top_center, across),
     bottom_left  |-> VSub(bottom_center, across),
     bottom_right |-> VAdd(bottom_center, across)]

\* Camera::plane
CameraPlane(c) ==
    Let2(VAdd(c.position, z_axis(c)), TanHalfFov(c.fov), LAMBDA plane_center, half_height :
        Let2(VScale(y_axis(c), half_height),
             VScale(x_axis(c), MulFx(half_height, c.aspect_ratio)),
             LAMBDA up, across :
                ViewPlane(VAdd(plane_center, up), VSub(plane_center, up), across)))

\* The point of the view plane at (x_t, y_t): the three lerps of render.
PlanePoint(plane, x_t, y_t) ==
    Let2(lerp(plane.top_left, plane.top_right, x_t),
         lerp(plane.bottom_left, plane.bottom_right, x_t),
         LAMBDA plane_point_top, plane_point_bottom :
            lerp(plane_point_top, plane_point_bottom, y_t))

\* The primary ray of pixel (x, y): the body of the pixel loop up to Ray::new.
PrimaryRay(c, width, height, x, y) ==
    Let(PlanePoint(CameraPlane(c), DivFx(x * Scale, width * Scale),
                   DivFx(y * Scale, height * Scale)),
        LAMBDA plane_point : RayNew(plane_point, normalize(VSub(plane_point, c.position))))

(***************************************************************************)
(* render.rs: Renderer::trace_ray.                                         *)
(***************************************************************************)

Object(shape, material) == [shape |-> shape, material |-> material]

Light(shape, color, intensity) == [shape |-> shape, color |-> color, intensity |-> intensity]

\* No element hit: the None of closest_hit_object and closest_hit_light.
NoHit == [k |-> 0, hit |-> None]

\* Every element of `list` (objects or lights) with its intersection with
\* `ray`, and those of them that are hit: the filter_map.
Tested(list, ray) ==
    { [k |-> k, hit |-> Intersection(list[k].shape, ray)] : k \in 1..Len(list) }

Hits(list, ray) == { h \in Tested(list, ray) : h.hit.some }

\* filter_map(..).min_by_key(|(_, i)| FloatOrd(i.t)): the hit of minimal t,
\* the first of them in the list when several are equally near.
ClosestHit(list, ray) ==
    Let(Hits(list, ray), LAMBDA hits :
        IF hits = {} THEN NoHit
        ELSE CHOOSE h \in hits :
                \A j \in hits :
                    \/ h.hit.t < j.hit.t
                    \/ h.hit.t = j.hit.t /\ h.k <= j.k)

\* A tint that also halves the intensity.
ObjColorAttenuating(lr, mat_color) ==
    LightRay(ColorMul(lr.color, mat_color), FMul(lr.intensity, Fin(Scale \div 2)))

\* The LightRay obj_color returns: the colour tinted, the intensity kept.
ObjColor(lr, mat_color) == LightRay(ColorMul(lr.color, mat_color), lr.intensity)

\* The outcome of trace_ray up to its first call of scatter: either a
\* LightRay to return (with the arm that produced it) or the object to
\* scatter on.  `tests` counts the intersection tests made.
Return(lr, rule, tests) == [kind |-> "return", lr |-> lr, rule |-> rule, tests |-> tests]

ScatterOn(h, tests) == [kind |-> "scatter", obj |-> h.k, hit |-> h.hit, tests |-> tests]

\* A match that lets the light win when it is exactly as far as the object.
MatchHitsTie(sc, rd, l, o) ==
    Let(Len(sc.objects) + Len(sc.lights), LAMBDA n :
        CASE l.k = 0 /\ o.k = 0 -> Return(rd.ambient_light, "miss", n)
          [] l.k = 0 /\ o.k # 0 -> ScatterOn(o, n)
          [] l.k # 0 /\ o.k = 0 -> Return(light_ray(sc.lights[l.k]), "light", n)
          [] OTHER ->
                IF l.hit.t <= o.hit.t
                THEN Return(light_ray(sc.lights[l.k]), "light", n)
                ELSE ScatterOn(o, n))

\* match (closest_hit_light, closest_hit_object)
MatchHits(sc, rd, l, o) ==
    Let(Len(sc.objects) + Len(sc.lights), LAMBDA n :
        CASE l.k = 0 /\ o.k = 0 -> Return(rd.ambient_light, "miss", n)
          [] l.k = 0 /\ o.k # 0 -> ScatterOn(o, n)
          [] l.k # 0 /\ o.k = 0 -> Return(light_ray(sc.lights[l.k]), "light", n)
          [] OTHER ->
                IF l.hit.t < o.hit.t
                THEN Return(light_ray(sc.lights[l.k]), "light", n)
                ELSE ScatterOn(o, n))

ResolveHits(sc, rd, ray) ==
    Let2(ClosestHit(sc.lights, ray), ClosestHit(sc.objects, ray),
         LAMBDA l, o : MatchHits(sc, rd, l, o))

\* A trace_ray that looks for a light before it looks at its budget.
TraceRayEnterLate(sc, rd, ray, depth) ==
    Let(ResolveHits(sc, rd, ray), LAMBDA out :
        IF U32IsZero(depth) /\ ~(out.kind = "return" /\ out.rule = "light")
        THEN Return(rd.ambient_light, "depth0", 0)
        ELSE out)

\* trace_ray from its entry: `if depth == 0 { return self.ambient_light; }`
\* and then the lookups and the match.
TraceRayEnter(sc, rd, ray, depth) ==
    IF U32IsZero(depth) THEN Return(rd.ambient_light, "depth0", 0)
    ELSE ResolveHits(sc, rd, ray)

\* A recursive call that keeps the budget.
ChildDepthSame(depth) == depth

\* `depth - 1`, the budget of the recursive call.
ChildDepth(depth) == U32Dec(depth)

(***************************************************************************)
(* render.rs: Renderer::render, as the steps of one call.  worker[i] holds *)
(* the locals of call i:                                                   *)
(*   pc        where the call is: "start", "pixel" (top of the pixel       *)
(*             loop), "sample" (top of the sample loop), "trace" (inside   *)
(*             trace_ray), "tonemap", "done", or "panicked"                *)
(*   x, y      the pixel; ray, its primary ray; channels, the running sum  *)
(*   samples   iterations of the sample loop completed                     *)
(*   stack     the activation records of trace_ray, the innermost last     *)
(*   ret       the value the last trace_ray to return has returned         *)
(* and, for the properties only: calls (trace_ray calls made by render for *)
(* this pixel), lrs (the LightRays they returned), written (the pixels     *)
(* written so far, in order, each with the calls and LightRays of its      *)
(* sample loop) and cause (of a panic).                                    *)
(* Each step is a function of the call's own locals w and buffer b, of the *)
(* scene and the renderer it borrows, and of the draws of scatter.         *)
(***************************************************************************)

Zero3 == <<FZero, FZero, FZero>>

NoRay == [point |-> VecZero, direction |-> VecZero]

NoRet == [some |-> FALSE]

InitWorker ==
    [pc |-> "start", x |-> 0, y |-> 0, ray |-> NoRay, channels |-> Zero3,
     samples |-> 0, stack |-> <<>>, ret |-> NoRet,
     calls |-> 0, lrs |-> <<>>, written |-> <<>>, cause |-> "none"]

\* ImgBuf::new(width, height): every channel 0.0.
NewBuffer(width, height) ==
    [width |-> width, height |-> height,
     pixels |-> [px \in (0..(width - 1)) \X (0..(height - 1)) |-> Zero3]]

Frame(ray, depth) ==
    [ray |-> ray, depth |-> depth, phase |-> "enter", obj |-> 0, hit |-> None,
     tests |-> 0, scatters |-> 0]

Top(w) == w.stack[Len(w.stack)]

Pop(stack) == SubSeq(stack, 1, Len(stack) - 1)

ReplaceTop(stack, f) == [stack EXCEPT ![Len(stack)] = f]

\* A failed assertion or an overflow check unwinds the whole call.
Panic(w, cause) == [w EXCEPT !.pc = "panicked", !.stack = <<>>, !.cause = cause]

\* let (buffer_width, buffer_height) = buffer.dimensions(); let plane = ...
AfterRenderStart(w, b) ==
    [w EXCEPT !.pc = IF b.width = 0 \/ b.height = 0 THEN "tonemap" ELSE "pixel"]

\* The pixel loop's body up to the sample loop: Ray::new and channels = 0.
AfterBeginPixel(w, b) ==
    Let(PrimaryRay(scene.camera, b.width, b.height, w.x, w.y), LAMBDA r :
        IF r.ok
        THEN [w EXCEPT !.pc = "sample", !.ray = r.val, !.channels = Zero3,
                       !.samples = 0, !.calls = 0, !.lrs = <<>>]
        ELSE Panic(w, "Ray::new"))

\* self.trace_ray(ray, scene, self.indirect_count + 1): the addition panics
\* on overflow when the build checks it and wraps around when it does not.
AfterCallTrace(w) ==
    IF renderer.indirect_count = U32_MAX /\ overflow_checks
    THEN Panic(w, "overflow")
    ELSE [w EXCEPT !.pc = "trace",
                   !.calls = @ + 1,
                   !.ret = NoRet,
                   !.stack = <<Frame(w.ray, U32WrappingInc(renderer.indirect_count))>>]

\* trace_ray from its entry to its first scatter, or to its return.
AfterTraceResolve(w) ==
    Let2(Top(w), TraceRayEnter(scene, renderer, Top(w).ray, Top(w).depth), LAMBDA f, out :
        IF out.kind = "return"
        THEN [w EXCEPT !.stack = Pop(@),
                       !.ret = [some |-> TRUE, lr |-> out.lr, rule |-> out.rule,
                                ray |-> f.ray, depth |-> f.depth,
                                tests |-> out.tests, scatters |-> 0, obj |-> 0]]
        ELSE [w EXCEPT !.stack = ReplaceTop(@,
                  [f EXCEPT !.phase = "scatter", !.obj = out.obj,
                            !.hit = out.hit, !.tests = out.tests])])

\* obj_color: material.scatter(..) on the draws u and v, then the call
\* self.trace_ray(new_ray, scene, depth - 1).  Ray::new inside scatter may panic.
AfterTraceScatter(w, u, v) ==
    Let2(Top(w),
         SimpleScatter(materials[scene.objects[Top(w).obj].material],
                       Top(w).ray, Top(w).hit.point, Top(w).hit.normal, u, v),
         LAMBDA f, r :
            IF r.ok
            THEN [w EXCEPT !.ret = NoRet,
                           !.stack = Append(
                               ReplaceTop(@, [f EXCEPT !.phase = "await", !.scatters = @ + 1]),
                               Frame(r.val, ChildDepth(f.depth)))]
            ELSE Panic(w, "Ray::new"))

\* obj_color after the recursive call has returned: tint and return.
AfterTraceCombine(w) ==
    Let2(Top(w), materials[scene.objects[Top(w).obj].material], LAMBDA f, m :
        [w EXCEPT !.stack = Pop(@),
                  !.ret = [some |-> TRUE,
                           lr |-> ObjColor(w.ret.lr, SimpleColor(m, f.hit.point, f.hit.normal)),
                           rule |-> "object", ray |-> f.ray, depth |-> f.depth,
                           tests |-> f.tests, scatters |-> f.scatters, obj |-> f.obj]])

Add3(a, b) == <<FAdd(a[1], b[1]), FAdd(a[2], b[2]), FAdd(a[3], b[3])>>

\* let sample = light_ray.to_sample(); channels[k] += sample[k];
AfterAccumulateSample(w) ==
    [w EXCEPT !.pc = "sample",
              !.channels = Add3(@, to_sample(w.ret.lr)),
              !.samples = @ + 1,
              !.lrs = Append(@, w.ret.lr)]

\* channels[k] /= self.sample_count as f32
PixelValue(channels, sample_count) ==
    Let(FFromNat(U32ToNat(sample_count)), LAMBDA n :
        <<FDiv(channels[1], n), FDiv(channels[2], n), FDiv(channels[3], n)>>)

\* buffer.pixel_mut((x, y)).unwrap() and copy_from_slice(&channels[..])
WritePixel(w, b) ==
    [b EXCEPT !.pixels[<<w.x, w.y>>] = PixelValue(w.channels, renderer.sample_count)]

\* The step of the pixel loops to the next pixel, or out of them.
AfterEndPixel(w, b) ==
    [w EXCEPT !.written = Append(@, [px |-> <<w.x, w.y>>, calls |-> w.calls, lrs |-> w.lrs]),
              !.x = IF w.x + 1 = b.width THEN 0 ELSE w.x + 1,
              !.y = IF w.x + 1 = b.width THEN w.y + 1 ELSE w.y,
              !.pc = IF w.x + 1 = b.width /\ w.y + 1 = b.height THEN "tonemap" ELSE "pixel"]

\* (channel / self.max_value).clamp(0.0, 1.0)
ToneMapChannel(c, max_value) == FClamp(FDiv(c, max_value), FZero, FOne)

\* The final loop over buffer.pixels_mut().
AfterToneMap(b) ==
    [b EXCEPT !.pixels =
        [px \in DOMAIN @ |->
            <<ToneMapChannel(@[px][1], renderer.max_value),
              ToneMapChannel(@[px][2], renderer.max_value),
              ToneMapChannel(@[px][3], renderer.max_value)>>]]

(***************************************************************************)
(* The render calls as processes: call i runs render(&scene, &mut buffer)  *)
(* on the buffer it was handed, with its own generator (thread_rng).       *)
(***************************************************************************)

\* A hand-out that gives every call the same buffer.
BufferShared(i) == 1

\* The buffer call i was handed (`let mut buffer = ImgBuf::new(..)`, one
\* for each call).
BufferOf(i) == i

\* The candidates one draw of random_vec_unit_sphere's loop can produce
\* (each component in [-1, 1)), and the draws of gen_range(0.0..1.0).
VCandidates ==
    { Vec(0, 0, -(Scale \div 2)), Vec(0, 0, Scale \div 2), Vec(0, Scale \div 2, 0),
      VecZero, Vec(-Scale, -Scale, -Scale) }

UDraws == {0, (3 * Scale) \div 4}

\* The draws of call i, written down when draws[i].on.
Log(i, d) ==
    draws' = [draws EXCEPT ![i] = IF @.on THEN [@ EXCEPT !.log = Append(@, d)] ELSE @]

RenderStart(i) ==
    /\ worker[i].pc = "start"
    /\ worker' = [worker EXCEPT ![i] = AfterRenderStart(worker[i], buffer[BufferOf(i)])]
    /\ UNCHANGED <<scene, materials, renderer, overflow_checks, buffer, draws, call>>

BeginPixel(i) ==
    /\ worker[i].pc = "pixel"
    /\ worker' = [worker EXCEPT ![i] = AfterBeginPixel(worker[i], buffer[BufferOf(i)])]
    /\ UNCHANGED <<scene, materials, renderer, overflow_checks, buffer, draws, call>>

CallTrace(i) ==
    /\ worker[i].pc = "sample"
    /\ worker[i].samples < U32ToNat(renderer.sample_count)
    /\ worker' = [worker EXCEPT ![i] = AfterCallTrace(worker[i])]
    /\ UNCHANGED <<scene, materials, renderer, overflow_checks, buffer, draws, call>>

TraceResolve(i) ==
    /\ worker[i].pc = "trace"
    /\ worker[i].stack # <<>>
    /\ Top(worker[i]).phase = "enter"
    /\ worker' = [worker EXCEPT ![i] = AfterTraceResolve(worker[i])]
    /\ UNCHANGED <<scene, materials, renderer, overflow_checks, buffer, draws, call>>

TraceScatter(i) ==
    /\ worker[i].pc = "trace"
    /\ worker[i].stack # <<>>
    /\ Top(worker[i]).phase = "scatter"
    /\ \E u \in UDraws, v \in {c \in VCandidates : Accepted(c)} :
          /\ worker' = [worker EXCEPT ![i] = AfterTraceScatter(worker[i], u, v)]
          /\ Log(i, <<u, v>>)
    /\ UNCHANGED <<scene, materials, renderer, overflow_checks, buffer, call>>

TraceCombine(i) ==
    /\ worker[i].pc = "trace"
    /\ worker[i].stack # <<>>
    /\ Top(worker[i]).phase = "await"
    /\ worker[i].ret.some
    /\ worker' = [worker EXCEPT ![i] = AfterTraceCombine(worker[i])]
    /\ UNCHANGED <<scene, materials, renderer, overflow_checks, buffer, draws, call>>

AccumulateSample(i) ==
    /\ worker[i].pc = "trace"
    /\ worker[i].stack = <<>>
    /\ worker[i].ret.some
    /\ worker' = [worker EXCEPT ![i] = AfterAccumulateSample(worker[i])]
    /\ UNCHANGED <<scene, materials, renderer, overflow_checks, buffer, draws, call>>

\* After the sample loop: divide, write the pixel, and step to the next one.
EndPixel(i) ==
    /\ worker[i].pc = "sample"
    /\ worker[i].samples = U32ToNat(renderer.sample_count)
    /\ buffer' = [buffer EXCEPT ![BufferOf(i)] = WritePixel(worker[i], @)]
    /\ worker' = [worker EXCEPT ![i] = AfterEndPixel(worker[i], buffer[BufferOf(i)])]
    /\ UNCHANGED <<scene, materials, renderer, overflow_checks, draws, call>>

ToneMap(i) ==
    /\ worker[i].pc = "tonemap"
    /\ buffer' = [buffer EXCEPT ![BufferOf(i)] = AfterToneMap(@)]
    /\ worker' = [worker EXCEPT ![i].pc = "done"]
    /\ UNCHANGED <<scene, materials, renderer, overflow_checks, draws, call>>

Next ==
    \/ \E i \in DOMAIN worker : RenderStart(i)
    \/ \E i \in DOMAIN worker : BeginPixel(i)
    \/ \E i \in DOMAIN worker : CallTrace(i)
    \/ \E i \in DOMAIN worker : TraceResolve(i)
    \/ \E i \in DOMAIN worker : TraceScatter(i)
    \/ \E i \in DOMAIN worker : TraceCombine(i)
    \/ \E i \in DOMAIN worker : AccumulateSample(i)
    \/ \E i \in DOMAIN worker : EndPixel(i)
    \/ \E i \in DOMAIN worker : ToneMap(i)

(***************************************************************************)
(* One render call run alone, from `s` (its locals w, its buffer b and the *)
(* draws `log` its scatters will make, in order) until it has returned or  *)
(* panicked, or needs a draw the log does not hold.                        *)
(***************************************************************************)

Replay(w, b, log) == [w |-> w, b |-> b, log |-> log]

NeedsDraw(w) == w.pc = "trace" /\ w.stack # <<>> /\ Top(w).phase = "scatter"

ReplayEnded(s) ==
    \/ s.w.pc \in {"done", "panicked"}
    \/ NeedsDraw(s.w) /\ s.log = <<>>

StepTrace(s) ==
    IF s.w.stack = <<>> THEN [s EXCEPT !.w = AfterAccumulateSample(s.w)]
    ELSE CASE Top(s.w).phase = "enter" -> [s EXCEPT !.w = AfterTraceResolve(s.w)]
           [] Top(s.w).phase = "scatter" ->
                [s EXCEPT !.w = AfterTraceScatter(s.w, Head(s.log)[1], Head(s.log)[2]),
                          !.log = Tail(s.log)]
           [] OTHER -> [s EXCEPT !.w = AfterTraceCombine(s.w)]

StepAlone(s) ==
    CASE s.w.pc = "start" -> [s EXCEPT !.w = AfterRenderStart(s.w, s.b)]
      [] s.w.pc = "pixel" -> [s EXCEPT !.w = AfterBeginPixel(s.w, s.b)]
      [] s.w.pc = "sample" ->
            IF s.w.samples < U32ToNat(renderer.sample_count)
            THEN [s EXCEPT !.w = AfterCallTrace(s.w)]
            ELSE [s EXCEPT !.w = AfterEndPixel(s.w, s.b), !.b = WritePixel(s.w, s.b)]
      [] s.w.pc = "trace" -> StepTrace(s)
      [] OTHER -> [s EXCEPT !.w = [s.w EXCEPT !.pc = "done"], !.b = AfterToneMap(s.b)]

RECURSIVE RunAlone(_)
RunAlone(s) == Let(s, LAMBDA t : IF ReplayEnded(t) THEN t ELSE RunAlone(StepAlone(t)))
(***************************************************************************)
(* The scenes and renderers a behaviour starts from.                       *)
(***************************************************************************)

\* The largest sample_count, the largest indirect_count below u32::MAX, and
\* the widest buffer of the initial states.
MaxSamples == 2
MaxIndirect == 2
MaxWidth == 2

Half == Scale \div 2

White == ColorNew(FOne, FOne, FOne).val
Black == ColorNew(FZero, FZero, FZero).val
Tint  == ColorNew(Fin(Half), FOne, Fin(-Half)).val

\* The materials, shared by handle (Arc) among the objects.
Materials ==
    [white  |-> Simple(White, Scale, 0),
     mirror |-> Simple(White, 0, 0),
     glossy |-> Simple(Tint, Half, Scale)]

\* A camera at (0, 0, -1) looking along +z; with fov = 0 the view plane is
\* the single point (0, 0, 0) and every primary ray is (0, 0, 0) -> +z.
CamAxis == Camera(Vec(0, 0, -Scale), VecZ, 0, Scale)
CamWide == Camera(Vec(0, 0, -Scale), VecZ, FovQuarterTurn, Scale)

PlaneAt(z) == Plane(Vec(0, 0, z), VNeg(VecZ))

LightA == Light(Sphere(Vec(0, 0, Scale), Half), White, FOne)
LightBehind == Light(Sphere(Vec(0, 0, -Scale), Half), White, FOne)
LightB == Light(Sphere(Vec(0, 0, Scale + Half), Half \div 2), Tint, Fin(Half))

\* Nothing to hit.
SceneEmpty == [camera |-> CamAxis, objects |-> <<>>, lights |-> <<>>]

\* A diffuse sphere ahead, a light behind the first hit point.
SceneBounce ==
    [camera |-> CamAxis,
     objects |-> <<Object(Sphere(Vec(0, 0, Scale), Half), "white")>>,
     lights  |-> <<LightBehind>>]

\* Two facing mirrors.
SceneMirrors ==
    [camera |-> CamAxis,
     objects |-> <<Object(PlaneAt(Half), "mirror"),
                   Object(Plane(Vec(0, 0, -Half), VecZ), "mirror")>>,
     lights  |-> <<>>]

\* The nearest object (the second) and the light at the same t.
SceneTie ==
    [camera |-> CamAxis,
     objects |-> <<Object(PlaneAt(Half + Half \div 2), "mirror"),
                   Object(PlaneAt(Half), "glossy")>>,
     lights  |-> <<LightA>>]

\* The nearest light (the second) nearer than the object.
SceneLights ==
    [camera |-> CamAxis,
     objects |-> <<Object(PlaneAt(Half + Half \div 2), "white")>>,
     lights  |-> <<LightB, LightA>>]

\* The object nearer than the light.
SceneNear ==
    [camera |-> CamAxis,
     objects |-> <<Object(PlaneAt(Half \div 2), "glossy")>>,
     lights  |-> <<LightA, LightBehind>>]

\* A wide camera in front of a plane-shaped light.
SceneWide ==
    [camera |-> CamWide,
     objects |-> <<>>,
     lights  |-> <<Light(PlaneAt(Scale), Tint, FOne)>>]

Scenes ==
    { SceneEmpty, SceneBounce, SceneMirrors, SceneTie, SceneLights, SceneNear, SceneWide }

Ambients == { LightRay(Black, FZero), LightRay(Tint, Fin(Half)) }

MaxValues == { FZero, Fin(Half), FOne }

\* The renderer the configurations vary: one sample for each pixel and one
\* indirect bounce.
BaseRenderer ==
    [sample_count |-> U32(1), indirect_count |-> U32(1), max_value |-> Fin(Half),
     ambient_light |-> LightRay(Tint, Fin(Half))]

\* The configurations a behaviour starts from.  The sample loop and the tone
\* mapping vary together, and so do the recursion budget and the ambient
\* light.
Renderers ==
    { [BaseRenderer EXCEPT !.sample_count = U32(s), !.max_value = m] :
        s \in 0..MaxSamples, m \in MaxValues }
    \cup
    { [BaseRenderer EXCEPT !.indirect_count = n, !.ambient_light = a] :
        n \in {U32(k) : k \in 0..MaxIndirect} \cup {U32_MAX}, a \in Ambients }

InitWith(workers, scenes, renderers, widths, recording) ==
    /\ call = NoCall
    /\ scene \in scenes
    /\ materials = Materials
    /\ renderer \in renderers
    /\ overflow_checks \in BOOLEAN
    /\ worker = [i \in workers |-> InitWorker]
    /\ \E width \in widths : buffer = [i \in workers |-> NewBuffer(width, 1)]
    /\ draws = [i \in workers |-> [on |-> recording, log |-> <<>>]]

\* One render call.
Init == InitWith({1}, Scenes, Renderers, 0..MaxWidth, FALSE)

Spec == Init /\ [][Next]_vars

\* One render call whose thread keeps running: a step that can be taken is
\* eventually taken.
LiveSpec == Init /\ [][Next]_vars /\ WF_vars(Next)

\* Two concurrent render calls on one scene and one renderer, each with a
\* buffer of its own, their draws written down.
ConcInit ==
    InitWith({1, 2}, {SceneBounce, SceneNear},
             {r \in Renderers : r.sample_count = U32(1) /\ r.indirect_count = U32(1)
                                 /\ r.max_value = Fin(Half)},
             {1}, TRUE)

ConcSpec == ConcInit /\ [][Next]_vars

(***************************************************************************)
(* Single calls of the value types: Ray::new and its getters, Color::new   *)
(* and Color * Color, and Shape::intersection, each on inputs drawn from   *)
(* bounded sets.  The renderer is idle in these behaviours.                *)
(***************************************************************************)

\* How far (in grid units) the test origins step away from a sphere's surface.
MaxOffset == 2

IdleRender ==
    /\ scene = [camera |-> "none", objects |-> <<>>, lights |-> <<>>]
    /\ materials = <<>>
    /\ renderer = "none"
    /\ overflow_checks = TRUE
    /\ worker = <<>>
    /\ buffer = <<>>
    /\ draws = <<>>

TestDirections ==
    { VecZ, VNeg(VecZ), Vec((3 * Scale) \div 5, 0, (4 * Scale) \div 5),
      Vec(Scale - 1, 0, 0), Vec(Scale, 100, 0), Vec(Scale, 200, 0),
      Vec(Scale, 201, 0), Vec(Scale + 1, 0, 0), Vec(0, 0, 2 * Scale),
      Vec(Scale \div 2, 0, 0), VecZero, NaNVec }

TestOrigins ==
    { Vec(x, 0, z) : x \in {0, Scale \div 2, Scale},
                     z \in {-((3 * Scale) \div 2), -Scale, 0, Scale, (3 * Scale) \div 2}
                           \cup {Scale - k : k \in 1..MaxOffset}
                           \cup {k - Scale : k \in 1..MaxOffset} }

TestRays ==
    { [point |-> p, direction |-> d] :
        p \in TestOrigins,
        d \in {VecZ, VNeg(VecZ), Vec((3 * Scale) \div 5, 0, (4 * Scale) \div 5)} }

TestSpheres == { Sphere(VecZero, r) : r \in {Scale, Scale \div 2, 1} }

\* The plane z = 1 facing the origin, and a plane parallel to the z axis.
TestPlanes == { Plane(Vec(0, 0, Scale), VNeg(VecZ)), Plane(VecZero, VecX) }

TestChannels == { Fin(-(Scale \div 2)), FZero, Fin(Scale \div 2), FOne,
                  Fin(Scale + Scale \div 2), NaN }

RayCalls ==
    { [fn |-> "Ray::new", point |-> p, direction |-> d, done |-> FALSE,
       result |-> Panicked, uses |-> 0, read |-> VecZero] :
        p \in {VecZero, Vec(Scale, -Scale, 0), NaNVec}, d \in TestDirections }

ColorCalls ==
    { [fn |-> "Color::new", r |-> r, g |-> g, b |-> b, done |-> FALSE,
       result |-> Panicked] :
        r \in TestChannels, g \in TestChannels, b \in TestChannels }

IntersectionCalls ==
    { [fn |-> "intersection", shape |-> s, ray |-> r, done |-> FALSE, result |-> None] :
        s \in TestSpheres \cup TestPlanes, r \in TestRays }

ValueInit == IdleRender /\ call \in RayCalls \cup ColorCalls \cup IntersectionCalls

UnchangedRender ==
    UNCHANGED <<scene, materials, renderer, overflow_checks, worker, buffer, draws>>

\* Ray::new(point, direction)
CallRayNew ==
    /\ call.fn = "Ray::new"
    /\ ~call.done
    /\ call' = [call EXCEPT !.done = TRUE, !.result = RayNew(call.point, call.direction)]
    /\ UnchangedRender

\* Ray::point, Ray::direction, Ray::point_at_t read a constructed ray (&self).
UseRay ==
    /\ call.fn = "Ray::new"
    /\ call.done
    /\ call.result.ok
    /\ call.uses < 2
    /\ \E t \in {0, Scale} :
          call' = [call EXCEPT !.uses = @ + 1,
                               !.read = IF call.point.nan THEN NaNVec
                                        ELSE point_at_t(call.result.val, t)]
    /\ UnchangedRender

\* Color::new(r, g, b)
CallColorNew ==
    /\ call.fn = "Color::new"
    /\ ~call.done
    /\ call' = [call EXCEPT !.done = TRUE, !.result = ColorNew(call.r, call.g, call.b)]
    /\ UnchangedRender

\* Color * Color of the colour just constructed and another constructed colour.
CallColorMul ==
    /\ call.fn = "Color::new"
    /\ call.done
    /\ call.result.ok
    /\ \E c \in TestChannels :
          /\ ColorNew(c, c, c).ok
          /\ call' = [fn |-> "Color::mul", a |-> call.result.val,
                      b |-> ColorNew(c, c, c).val, done |-> TRUE,
                      result |-> ColorMul(call.result.val, ColorNew(c, c, c).val)]
    /\ UnchangedRender

\* Shape::intersection(ray)
CallIntersection ==
    /\ call.fn = "intersection"
    /\ ~call.done
    /\ call' = [call EXCEPT !.done = TRUE, !.result = Intersection(call.shape, call.ray)]
    /\ UnchangedRender

ValueNext == CallRayNew \/ UseRay \/ CallColorNew \/ CallColorMul \/ CallIntersection

ValueSpec == ValueInit /\ [][ValueNext]_vars

(***************************************************************************)
(* Properties of the value types (checked under ValueSpec).                *)
(***************************************************************************)

AllInUnit(color) == \A i \in 1..3 : InUnit(color[i])

\* C6 (as claimed): Color::new panics exactly when some channel is outside
\* [0, 1] (above 1 or below 0), so every Color, and every channel-wise
\* product of two Colors, has its three channels in [0, 1].
C6_ColorChannelsInUnit ==
    /\ (call.fn = "Color::new" /\ call.done) =>
          (call.result.ok <=> AllInUnit(<<call.r, call.g, call.b>>))
    /\ (call.fn = "Color::mul") => AllInUnit(call.result)

RayCallDone == call.fn = "Ray::new" /\ call.done

WithinTolerance(v) ==
    /\ ~v.nan
    /\ LenSqRaw(v) - Scale * Scale <= (Scale * Scale) \div 10000
    /\ Scale * Scale - LenSqRaw(v) <= (Scale * Scale) \div 10000

ExactlyUnit(v) == ~v.nan /\ LenSqRaw(v) = Scale * Scale

\* C7 (as claimed): Ray::new succeeds for every unit-length direction and
\* every origin and panics for every direction that is not unit-length.
C7_RayNewExactlyUnit ==
    RayCallDone => (call.result.ok <=> ExactlyUnit(call.direction))

\* C7 (amended): Ray::new succeeds, whatever the origin, exactly when the
\* squared length of the direction is within 1e-4 of 1 (every exactly
\* unit-length direction is), and panics otherwise (zero and NaN
\* directions included); the constructed Ray holds the point and the
\* direction given, and no later use of it changes them.
C7_RayNewWithinTolerance ==
    /\ [](RayCallDone =>
            /\ call.result.ok <=> WithinTolerance(call.direction)
            /\ ExactlyUnit(call.direction) => call.result.ok
            /\ call.result.ok =>
                  call.result.val = [point |-> call.point, direction |-> call.direction])
    /\ [][RayCallDone => call'.result = call.result]_vars

\* C7 witness: a ray built on a NaN origin from a direction that is within
\* the tolerance but not of length 1, and already read once.
C7_Witness ==
    /\ RayCallDone
    /\ call.result.ok
    /\ call.point.nan
    /\ ~ExactlyUnit(call.direction)
    /\ call.uses > 0

SphereCallDone == call.fn = "intersection" /\ call.done /\ call.shape.kind = "Sphere"

\* The two roots of the quadratic, when the discriminant is not negative.
RootsOf(s, ray) == SphereRoots(SphereBHalved(s, ray), SphereDelta(s, ray))

\* The ray's origin lies strictly inside the sphere.
Inside(s, ray) == LenSqRaw(VSub(ray.point, s.center)) < s.radius * s.radius

\* What C10 states for every case but the origin inside the sphere.
SphereRootRule(s, ray, res) ==
    IF SphereDelta(s, ray) < 0 THEN ~res.some
    ELSE LET roots == RootsOf(s, ray)
         IN  /\ roots.min <= roots.max
             /\ roots.min >= EPSILON => res.some /\ res.t = roots.min
             /\ (roots.min < EPSILON /\ roots.max >= EPSILON) =>
                   res.some /\ res.t = roots.max
             /\ roots.max < EPSILON => ~res.some
             /\ res.some =>
                   /\ res.t \in {roots.min, roots.max}
                   /\ res.t >= EPSILON
                   /\ \A r \in {roots.min, roots.max} : r >= EPSILON => res.t <= r
             /\ roots.max < 0 => ~res.some

\* C10 (as claimed): the root selection rule, and a ray starting inside
\* the sphere returns the far root.
C10_InsideReturnsFarRoot ==
    SphereCallDone =>
        /\ SphereRootRule(call.shape, call.ray, call.result)
        /\ Inside(call.shape, call.ray) =>
              /\ call.result.some
              /\ call.result.t = RootsOf(call.shape, call.ray).max

\* C10 (amended): no hit when disc < 0; otherwise tmin if tmin >= EPSILON,
\* else tmax if tmax >= EPSILON, else no hit: the returned t is the
\* smallest root >= EPSILON, a sphere behind the origin gives no hit, and a
\* ray starting inside the sphere returns the far root when that root is
\* >= EPSILON and no hit when it is closer than EPSILON.
C10_SphereRootSelection ==
    SphereCallDone =>
        /\ SphereRootRule(call.shape, call.ray, call.result)
        /\ Inside(call.shape, call.ray) =>
              IF RootsOf(call.shape, call.ray).max >= EPSILON
              THEN /\ call.result.some
                   /\ call.result.t = RootsOf(call.shape, call.ray).max
              ELSE ~call.result.some

\* C10 witness: an origin inside the sphere whose far root is exactly
\* EPSILON away, returned as the hit.
C10_Witness ==
    /\ SphereCallDone
    /\ Inside(call.shape, call.ray)
    /\ call.result.some
    /\ call.result.t = EPSILON
    /\ RootsOf(call.shape, call.ray).min < 0


(***************************************************************************)
(* Properties of trace_ray (checked under Spec and LiveSpec).              *)
(***************************************************************************)

\* Of a set of hits (elements of a list with their intersections), those no
\* other is nearer than, and their distance.
Nearest(hits) == { h \in hits : \A j \in hits : h.hit.t <= j.hit.t }

MinT(hits) == (CHOOSE h \in Nearest(hits) : TRUE).hit.t

\* C1: trace_ray called with depth == 0 returns exactly ambient_light, for
\* every ray and scene, having tested no intersection and called no scatter;
\* an activation with depth 0 never gets past its entry.
C1_DepthZeroReturnsAmbient ==
    \A i \in DOMAIN worker :
        /\ (worker[i].ret.some /\ U32IsZero(worker[i].ret.depth)) =>
              /\ worker[i].ret.lr = renderer.ambient_light
              /\ worker[i].ret.tests = 0
              /\ worker[i].ret.scatters = 0
        /\ \A k \in 1..Len(worker[i].stack) :
              U32IsZero(worker[i].stack[k].depth) =>
                  /\ worker[i].stack[k].phase = "enter"
                  /\ worker[i].stack[k].tests = 0
                  /\ worker[i].stack[k].scatters = 0

\* C1 witness: a call with depth 0 has returned, on a ray that hits a light
\* whose LightRay is not the ambient light.
C1_Witness ==
    \E i \in DOMAIN worker :
        /\ worker[i].ret.some
        /\ U32IsZero(worker[i].ret.depth)
        /\ \E h \in Hits(scene.lights, worker[i].ret.ray) :
              LightRay(scene.lights[h.k].color, scene.lights[h.k].intensity)
                  # renderer.ambient_light

\* C2 (as claimed): after render has returned, every channel of every pixel
\* of the output buffer lies in [0, 1], whatever the scene and the
\* configuration are, sample_count == 0 included.
C2_OutputChannelsInUnit ==
    \A i \in DOMAIN worker :
        worker[i].pc = "done" =>
            \A px \in DOMAIN buffer[i].pixels :
                \A c \in 1..3 : InUnit(buffer[i].pixels[px][c])

\* The activations of trace_ray that have called scatter.
Scattered(stack) == { k \in 1..Len(stack) : stack[k].scatters > 0 }

\* Each nested call was made with its caller's depth - 1, from a depth > 0.
DepthsDescend(stack) ==
    /\ \A k \in 1..Len(stack) : stack[k].depth.hi = 0
    /\ \A k \in 1..(Len(stack) - 1) : stack[k].depth.lo = stack[k + 1].depth.lo + 1

\* C3 (as claimed): along a trace the nested trace_ray calls, and the
\* scatter calls, never exceed indirect_count + 1; each recursive call is
\* made with depth - 1 and the recursion stops at depth 0.
C3_NestedCallsWithinBudget ==
    \A i \in DOMAIN worker :
        /\ DepthsDescend(worker[i].stack)
        /\ U32IsSmall(renderer.indirect_count) =>
              /\ Len(worker[i].stack) <= renderer.indirect_count.lo + 1
              /\ Cardinality(Scattered(worker[i].stack)) <= renderer.indirect_count.lo + 1

\* C3 (amended): every trace started by render ends (it returns, or a panic
\* unwinds it); along a trace the scatter calls never exceed
\* indirect_count + 1 and the nested trace_ray calls never exceed
\* indirect_count + 2, the innermost being the call with depth 0 that
\* returns at once; each recursive call is made with depth - 1 from a depth
\* above 0.  (With indirect_count = u32::MAX a trace that starts at all
\* starts with depth 0 and makes no nested call.)
C3_RecursionBounded ==
    /\ [](\A i \in DOMAIN worker :
            /\ DepthsDescend(worker[i].stack)
            /\ Cardinality(Scattered(worker[i].stack)) + 1 >= Len(worker[i].stack)
            /\ IF U32IsSmall(renderer.indirect_count)
               THEN /\ Len(worker[i].stack) <= renderer.indirect_count.lo + 2
                    /\ Cardinality(Scattered(worker[i].stack))
                          <= renderer.indirect_count.lo + 1
               ELSE Len(worker[i].stack) <= 1)
    /\ (worker[1].pc = "trace") ~> (worker[1].pc # "trace")

\* C3 witness: two facing mirrors, and a stack of indirect_count + 2
\* activations of trace_ray, indirect_count + 1 of which have scattered.
C3_Witness ==
    /\ scene = SceneMirrors
    /\ renderer.indirect_count = U32(MaxIndirect)
    /\ Len(worker[1].stack) = MaxIndirect + 2
    /\ Cardinality(Scattered(worker[1].stack)) = MaxIndirect + 1

\* What C4 states of a ray traced with depth > 0: the arm taken (`rule`),
\* the LightRay returned by the arms that do not recurse, and the object
\* scattered on.
ResolvedAs(ray, rule, lr, obj, scatters) ==
    Let2(Hits(scene.objects, ray), Hits(scene.lights, ray), LAMBDA ho, hl :
        CASE ho = {} /\ hl = {} ->
                rule = "miss" /\ lr = renderer.ambient_light /\ scatters = 0
          [] hl # {} /\ (ho = {} \/ MinT(hl) < MinT(ho)) ->
                /\ rule = "light"
                /\ scatters = 0
                /\ \E h \in Nearest(hl) :
                      lr = LightRay(scene.lights[h.k].color, scene.lights[h.k].intensity)
          [] OTHER ->
                /\ rule = "object"
                /\ obj \in { h.k : h \in Nearest(ho) }
                /\ scatters = 1)

\* C4: for depth > 0, no hit gives ambient_light; only a light hit gives
\* that (nearest) light's LightRay with no recursion; only an object hit
\* gives the object-scatter rule on the nearest object; with both hit the
\* light's emission is returned iff the light's t is strictly smaller than
\* the object's t, and otherwise (equal t included) the object-scatter rule
\* is taken.
C4_NearestHitResolution ==
    \A i \in DOMAIN worker :
        /\ (worker[i].ret.some /\ ~U32IsZero(worker[i].ret.depth)) =>
              ResolvedAs(worker[i].ret.ray, worker[i].ret.rule, worker[i].ret.lr,
                         worker[i].ret.obj, worker[i].ret.scatters)
        /\ \A k \in 1..Len(worker[i].stack) :
              worker[i].stack[k].phase \in {"scatter", "await"} =>
                  ResolvedAs(worker[i].stack[k].ray, "object", renderer.ambient_light,
                             worker[i].stack[k].obj, 1)

\* C4 witness: the object-scatter rule has returned for a ray that hits a
\* light and an object at the same t.
C4_Witness ==
    \E i \in DOMAIN worker :
        /\ worker[i].ret.some
        /\ worker[i].ret.rule = "object"
        /\ Hits(scene.lights, worker[i].ret.ray) # {}
        /\ MinT(Hits(scene.lights, worker[i].ret.ray))
              = MinT(Hits(scene.objects, worker[i].ret.ray))

\* The intensities a trace can return: the ambient light's and the lights'.
SourceIntensities ==
    {renderer.ambient_light.intensity}
        \cup { scene.lights[l].intensity : l \in 1..Len(scene.lights) }

\* obj_color has called scatter and made its recursive call.
ScatterStep(i) ==
    /\ worker[i].stack # <<>>
    /\ Top(worker[i]).phase = "scatter"
    /\ worker'[i].pc = "trace"
    /\ Len(worker'[i].stack) = Len(worker[i].stack) + 1

\* obj_color has returned, its recursive call having returned before.
CombineStep(i) ==
    /\ worker[i].stack # <<>>
    /\ Top(worker[i]).phase = "await"
    /\ worker'[i].pc = "trace"
    /\ Len(worker'[i].stack) = Len(worker[i].stack) - 1

\* C5: the object-scatter rule at depth d > 0 calls the hit object's scatter
\* once, recurses once with depth d - 1, and returns the recursive result
\* with its intensity unchanged and its colour multiplied channel-wise by
\* the material's albedo; so every trace returns the intensity of the
\* ambient light or of one light of the scene.
C5_ObjectScatterRule ==
    /\ [](\A i \in DOMAIN worker :
            /\ worker[i].ret.some => worker[i].ret.lr.intensity \in SourceIntensities
            /\ \A k \in 1..Len(worker[i].stack) : worker[i].stack[k].scatters <= 1)
    /\ [][\A i \in DOMAIN worker :
            /\ ScatterStep(i) =>
                  /\ ~U32IsZero(Top(worker[i]).depth)
                  /\ Top(worker'[i]).depth.hi = Top(worker[i]).depth.hi
                  /\ Top(worker'[i]).depth.lo + 1 = Top(worker[i]).depth.lo
                  /\ Top(worker'[i]).phase = "enter"
                  /\ worker'[i].stack[Len(worker[i].stack)].scatters = 1
                  /\ worker'[i].stack[Len(worker[i].stack)].phase = "await"
            /\ CombineStep(i) =>
                  /\ worker[i].ret.some
                  /\ worker[i].ret.depth.lo + 1 = Top(worker[i]).depth.lo
                  /\ worker'[i].ret.rule = "object"
                  /\ worker'[i].ret.ray = Top(worker[i]).ray
                  /\ worker'[i].ret.scatters = 1
                  /\ worker'[i].ret.lr.intensity = worker[i].ret.lr.intensity
                  /\ \A c \in 1..3 :
                        worker'[i].ret.lr.color[c] =
                            FMul(worker[i].ret.lr.color[c],
                                 materials[scene.objects[Top(worker[i]).obj].material].color[c])
         ]_vars

\* C5 witness: the object-scatter rule has returned a light's intensity,
\* which is not the ambient light's, with the light's colour tinted.
C5_Witness ==
    \E i \in DOMAIN worker :
        /\ worker[i].ret.some
        /\ worker[i].ret.rule = "object"
        /\ worker[i].ret.lr.intensity # renderer.ambient_light.intensity
        /\ \E l \in 1..Len(scene.lights) :
              /\ worker[i].ret.lr.intensity = scene.lights[l].intensity
              /\ worker[i].ret.lr.color # scene.lights[l].color

(***************************************************************************)
(* Properties of render (checked under Spec and ConcSpec).                 *)
(***************************************************************************)

\* n + 1 of a u32 n as a number: not a u32 when n is u32::MAX.
Successor(n) ==
    IF n.lo = U16 - 1 THEN [hi |-> n.hi + 1, lo |-> 0] ELSE [hi |-> n.hi, lo |-> n.lo + 1]

RECURSIVE SumOfSamples(_)
SumOfSamples(lrs) ==
    IF lrs = <<>> THEN <<FZero, FZero, FZero>>
    ELSE LET rest == SumOfSamples(Tail(lrs))
             lr   == Head(lrs)
         IN  << FAdd(FMul(lr.color[1], lr.intensity), rest[1]),
                FAdd(FMul(lr.color[2], lr.intensity), rest[2]),
                FAdd(FMul(lr.color[3], lr.intensity), rest[3]) >>

\* The per-channel sum of the samples' color * intensity, divided by n.
MeanOfSamples(lrs, n) ==
    [c \in 1..3 |-> FDiv(SumOfSamples(lrs)[c], Fin(n * Scale))]

\* C8 (as claimed): for every pixel, render builds the primary ray once,
\* calls trace_ray exactly sample_count times with that ray and with depth
\* exactly indirect_count + 1 (u32::MAX included), and writes the pixel
\* once before tone mapping, with the sum of the samples divided by
\* sample_count.
C8_RenderLoop ==
    \A i \in DOMAIN worker :
        /\ worker[i].cause # "overflow"
        /\ worker[i].stack # <<>> =>
              /\ worker[i].stack[1].ray = worker[i].ray
              /\ worker[i].stack[1].depth = Successor(renderer.indirect_count)
        /\ worker[i].calls <= renderer.sample_count.lo
        /\ \A k \in 1..Len(worker[i].written) :
              /\ worker[i].written[k].calls = renderer.sample_count.lo
              /\ Len(worker[i].written[k].lrs) = renderer.sample_count.lo
              /\ \A j \in 1..Len(worker[i].written) :
                    worker[i].written[j].px = worker[i].written[k].px => j = k
              /\ worker[i].pc # "done" =>
                    buffer[i].pixels[worker[i].written[k].px] =
                        MeanOfSamples(worker[i].written[k].lrs, renderer.sample_count.lo)
        /\ worker[i].pc \in {"tonemap", "done"} =>
              Len(worker[i].written) = buffer[i].width * buffer[i].height

\* C9: a render call never modifies the scene, the shared materials or the
\* renderer; a step of one call changes only that call's locals, buffer and
\* draws; and whatever the interleaving, each call's locals and buffer are
\* those of the same call run alone on the draws it has made.
C9_CallsDoNotInterfere ==
    /\ [][/\ scene' = scene
          /\ materials' = materials
          /\ renderer' = renderer
          /\ overflow_checks' = overflow_checks
          /\ \E i \in DOMAIN worker :
                \A j \in DOMAIN worker \ {i} :
                    /\ worker'[j] = worker[j]
                    /\ buffer'[j] = buffer[j]
                    /\ draws'[j] = draws[j]]_vars
    /\ [](\A i \in DOMAIN worker :
            RunAlone(Replay(worker[i], buffer[i], <<>>))
                = RunAlone(Replay(InitWorker,
                                  NewBuffer(buffer[i].width, buffer[i].height),
                                  draws[i].log)))

\* C9 witness: two calls under way at once, both having scattered, the
\* first returned with its buffer written while the second is inside
\* trace_ray, on draws that differ from the first's.
C9_Witness ==
    /\ DOMAIN worker = {1, 2}
    /\ worker[1].pc = "done"
    /\ worker[2].pc = "trace"
    /\ draws[1].log # <<>>
    /\ draws[2].log # <<>>
    /\ draws[1].log # draws[2].log
    /\ buffer[1] # buffer[2]

(***************************************************************************)
(* The EPSILON rule of the two shapes.                                     *)
(***************************************************************************)

IntersectionCallDone == call.fn = "intersection" /\ call.done

\* The candidate parameter values of one intersection test: the two roots
\* of a sphere, the quotient of a plane.
CandidateTs(shape, ray) ==
    IF shape.kind = "Sphere"
    THEN IF SphereDelta(shape, ray) < 0 THEN {}
         ELSE {RootsOf(shape, ray).min, RootsOf(shape, ray).max}
    ELSE IF dot(ray.direction, shape.normal) = 0 THEN {}
         ELSE {DivFx(dot(VSub(shape.point, ray.point), shape.normal),
                     dot(ray.direction, shape.normal))}

\* Sphere::intersection accepts t when t is its only candidate.
SphereAccepts(t) == SphereValidT([min |-> t, max |-> t]).some

\* C11: every Intersection a shape returns has t strictly positive and
\* past EPSILON, a sphere accepts a candidate t exactly when a plane accepts
\* it, and a plane returns no hit when direction . normal == 0.
C11_SameEpsilonRule ==
    IntersectionCallDone =>
        /\ call.result.some => call.result.t > 0 /\ call.result.t > EPSILON
        /\ \A t \in CandidateTs(call.shape, call.ray) : SphereAccepts(t) <=> PlaneValidT(t)
        /\ (call.shape.kind = "Plane" /\ dot(call.ray.direction, call.shape.normal) = 0)
              => ~call.result.some

(***************************************************************************)
(* Aborts of render.                                                       *)
(***************************************************************************)

\* Every pixel of the buffer has been written, once.
EveryPixelWritten(w, b) ==
    /\ Len(w.written) = b.width * b.height
    /\ \A px \in DOMAIN b.pixels : \E k \in DOMAIN w.written : w.written[k].px = px

\* C12: a render call never aborts on Ray::new's assertion, whatever the
\* draws of scatter are, and it completes with every pixel written.
C12_RenderNeverAborts ==
    /\ [](\A i \in DOMAIN worker :
            ~(worker[i].pc = "panicked" /\ worker[i].cause = "Ray::new"))
    /\ <>(\A i \in DOMAIN worker :
            worker[i].pc = "done" /\ EveryPixelWritten(worker[i], buffer[BufferOf(i)]))
====
